---- MODULE Spec2Model ----
(***************************************************************************)
(* Model of src/src/request.rs of http_req: the delimiter scanner          *)
(* copy_until, the RequestBuilder / Request setters, the message           *)
(* serializer parse_msg and the send pipeline.                             *)
(*                                                                         *)
(* Byte strings are sequences of byte values (0..255).                     *)
(***************************************************************************)
EXTENDS Integers, Sequences, FiniteSets, TLC

VARIABLES
    pc,         \* position of the running call
    stream,     \* all bytes the byte source delivers before end-of-data
    pos,        \* number of bytes of stream already consumed by reads
    val,        \* copy_until: the delimiter
    buf,        \* copy_until: let mut buf
    read,       \* copy_until: let mut read
    sink,       \* copy_until: bytes received by `writer` (read_head: `head`)
    cu_res,     \* copy_until: the returned Result
    kind,       \* "RequestBuilder", "Request", or "copy_until" for a direct scan
    inner,      \* the RequestBuilder (Request.inner for a Request)
    log,        \* the calls made on the builder so far, with their arguments
    msg,        \* the bytes returned by the last parse_msg call
    stream_out, \* bytes the stream has received from write_all
    flushed,    \* the stream has been flushed
    writer,     \* send: bytes received by the caller's `writer`
    res,        \* send: `let res`, the result of read_head
    result,     \* send: the returned Result
    transport   \* Request::send: "none", then "tcp", then "tls"; "caller" for a caller's stream

scan_vars_but_pc == <<stream, pos, val, buf, read, sink, cu_res>>
scan_vars == <<pc, scan_vars_but_pc>>
build_vars == <<kind, inner, log, msg>>
send_vars == <<stream_out, flushed, writer, res, result>>
conn_vars == <<transport>>
vars == <<scan_vars, build_vars, send_vars, conn_vars>>

----------------------------------------------------------------------------
(* Bytes *)
CR == 13
LF == 10
SP == 32
COLON == 58
\* 'H', the first byte of tests::RESPONSE, used as the filler byte of streams
HB == 72

\* request.rs:14
CR_LF == <<CR, LF>>
\* response::CR_LF_2, imported at request.rs:4
CR_LF_2 == <<CR, LF, CR, LF>>
\* request.rs:26  let mut pre_buf = [0; 10]
PRE_BUF_LEN == 10

(* Bounds of the explored inputs *)
MaxPad == 9
MaxTail == 5

----------------------------------------------------------------------------
(* Helpers on byte strings *)
Min(a, b) == IF a < b THEN a ELSE b

Rep(b, n) == [i \in 1..n |-> b]

BSeq(S, n) == UNION {[1..k -> S] : k \in 0..n}

Take(s, n) == SubSeq(s, 1, n)
Drop(s, n) == SubSeq(s, n + 1, Len(s))

\* s ends with d
EndsWith(s, d) == Len(s) >= Len(d) /\ SubSeq(s, Len(s) - Len(d) + 1, Len(s)) = d

\* the end positions of the occurrences of d in s
Ends(s, d) == {e \in Len(d)..Len(s) : SubSeq(s, e - Len(d) + 1, e) = d}

\* end position of the first occurrence of d in s, 0 when there is none
FirstEnd(s, d) ==
    IF Ends(s, d) = {} THEN 0
    ELSE CHOOSE e \in Ends(s, d) : \A f \in Ends(s, d) : e <= f

----------------------------------------------------------------------------
(* Results *)
None == [tag |-> "None"]
Ok(v) == [tag |-> "Ok", v |-> v]
ErrIo == [tag |-> "Err", kind |-> "io"]

----------------------------------------------------------------------------
(* Text, as bytes *)
\* request.rs:15  "HTTP/1.1"
HTTP_V == <<72, 84, 84, 80, 47, 49, 46, 49>>

K_HOST == <<72, 111, 115, 116>>
K_REFERER == <<82, 101, 102, 101, 114, 101, 114>>
K_CONNECTION == <<67, 111, 110, 110, 101, 99, 116, 105, 111, 110>>
K_ACCEPT == <<65, 99, 99, 101, 112, 116>>
V_CLOSE == <<67, 108, 111, 115, 101>>
V_EN == <<101, 110>>

\* the Uri "http://a/b" as the collaborator exposes it
URI == [scheme |-> <<104, 116, 116, 112>>,
        host |-> <<97>>,
        resource |-> <<47, 98>>,
        text |-> <<104, 116, 116, 112, 58, 47, 47, 97, 47, 98>>]

\* the Uri "https://a/b"
URI_S == [scheme |-> <<104, 116, 116, 112, 115>>,
          host |-> <<97>>,
          resource |-> <<47, 98>>,
          text |-> <<104, 116, 116, 112, 115, 58, 47, 47, 97, 47, 98>>]

\* request.rs:256  "https"
HTTPS == <<104, 116, 116, 112, 115>>

----------------------------------------------------------------------------
(* Method, request.rs:47-73 *)
Methods == {"GET", "HEAD", "POST", "PUT", "DELETE", "OPTIONS", "PATCH"}

\* the arm of PUT renders the token of POST
MethodDisplay_put_as_post(m) ==
    CASE m = "GET" -> <<71, 69, 84>>
      [] m = "HEAD" -> <<72, 69, 65, 68>>
      [] m = "POST" -> <<80, 79, 83, 84>>
      [] m = "PUT" -> <<80, 79, 83, 84>>
      [] m = "DELETE" -> <<68, 69, 76, 69, 84, 69>>
      [] m = "OPTIONS" -> <<79, 80, 84, 73, 79, 78, 83>>
      [] m = "PATCH" -> <<80, 65, 84, 67, 72>>

\* impl fmt::Display for Method
MethodDisplay(m) ==
    CASE m = "GET" -> <<71, 69, 84>>
      [] m = "HEAD" -> <<72, 69, 65, 68>>
      [] m = "POST" -> <<80, 79, 83, 84>>
      [] m = "PUT" -> <<80, 85, 84>>
      [] m = "DELETE" -> <<68, 69, 76, 69, 84, 69>>
      [] m = "OPTIONS" -> <<79, 80, 84, 73, 79, 78, 83>>
      [] m = "PATCH" -> <<80, 65, 84, 67, 72>>

----------------------------------------------------------------------------
(* Headers (crate::response::Headers): an ordered collection of            *)
(* <<key, value>> pairs with one entry per key.                            *)
HeadersNew == <<>>

HasKey(h, k) == \E i \in DOMAIN h : h[i][1] = k

\* the values stored under key k
Values(h, k) == {h[i][2] : i \in {j \in DOMAIN h : h[j][1] = k}}

\* Headers::insert: overwrite the entry of the key, or add one
HeadersInsert(h, k, v) ==
    IF HasKey(h, k)
    THEN [i \in DOMAIN h |-> IF h[i][1] = k THEN <<k, v>> ELSE h[i]]
    ELSE Append(h, <<k, v>>)

\* Headers::default_http: Host and Referer of the uri
HeadersDefaultHttp(uri) ==
    HeadersInsert(HeadersInsert(HeadersNew, K_HOST, uri.host), K_REFERER, uri.text)

----------------------------------------------------------------------------
(* RequestBuilder, request.rs:80-197 *)
NoBody == [tag |-> "None"]
Some(b) == [tag |-> "Some", v |-> b]

\* request.rs:90-98
RequestBuilder_new(uri) ==
    [uri |-> uri,
     method |-> "GET",
     version |-> HTTP_V,
     headers |-> HeadersDefaultHttp(uri),
     body |-> NoBody]

\* request.rs:101-107
RequestBuilder_method(self, method) == [self EXCEPT !.method = method]

\* the supplied headers are merged into the current ones instead
RequestBuilder_headers_merge(self, headers) ==
    [self EXCEPT !.headers = self.headers \o headers]

\* request.rs:110-116
RequestBuilder_headers(self, headers) == [self EXCEPT !.headers = headers]

\* request.rs:119-126
RequestBuilder_header(self, key, v) ==
    [self EXCEPT !.headers = HeadersInsert(self.headers, key, v)]

\* setting the body also resets the method
RequestBuilder_body_resets(self, body) ==
    [self EXCEPT !.body = Some(body), !.method = "GET"]

\* request.rs:129-132
RequestBuilder_body(self, body) == [self EXCEPT !.body = Some(body)]

RECURSIVE HeaderLines(_)
\* request.rs:183-187  one "{}: {}{}" per (k, v) of headers.iter()
HeaderLines(h) ==
    IF h = <<>> THEN <<>>
    ELSE h[1][1] \o <<COLON, SP>> \o h[1][2] \o CR_LF \o HeaderLines(Tail(h))

\* the body is appended before the blank line instead of after it
parse_msg_body_first(self) ==
    LET request_line == MethodDisplay(self.method) \o <<SP>> \o self.uri.resource
                            \o <<SP>> \o self.version \o CR_LF
        request_msg == request_line \o HeaderLines(self.headers)
    IN  IF self.body.tag = "Some" THEN request_msg \o self.body.v \o CR_LF
        ELSE request_msg \o CR_LF

\* request.rs:174-196
parse_msg(self) ==
    LET request_line == MethodDisplay(self.method) \o <<SP>> \o self.uri.resource
                            \o <<SP>> \o self.version \o CR_LF
        request_msg == request_line \o HeaderLines(self.headers) \o CR_LF
    IN  IF self.body.tag = "Some" THEN request_msg \o self.body.v ELSE request_msg

\* the builder is wrapped without the Connection header
Request_new_bare(uri) == RequestBuilder_new(uri)

\* request.rs:210-215
Request_new(uri) == RequestBuilder_header(RequestBuilder_new(uri), K_CONNECTION, V_CLOSE)

(* Arguments the callers pass *)
MaxOps == 3

HeaderKeys == {K_CONNECTION, K_HOST, K_ACCEPT}
HeaderVals == {V_CLOSE, V_EN}
HeaderSets == {HeadersNew,
               <<<<K_ACCEPT, V_EN>>>>,
               <<<<K_HOST, V_EN>>, <<K_CONNECTION, V_CLOSE>>>>}
Bodies == {<<>>, <<HB, CR, LF, HB>>}

NoMsg == [tag |-> "None"]

Called(entry) == log' = Append(log, entry)

\* RequestBuilder::method (request.rs:101), Request::set_method (request.rs:239)
SetMethod ==
    /\ pc = "build"
    /\ Len(log) < MaxOps
    /\ \E m \in Methods :
        /\ inner' = RequestBuilder_method(inner, m)
        /\ Called([op |-> "method", m |-> m])
    /\ UNCHANGED <<kind, msg, scan_vars, send_vars, conn_vars>>

\* RequestBuilder::headers (request.rs:110), Request::headers (request.rs:218)
SetHeaders ==
    /\ pc = "build"
    /\ Len(log) < MaxOps
    /\ \E h \in HeaderSets :
        /\ inner' = RequestBuilder_headers(inner, h)
        /\ Called([op |-> "headers", h |-> h])
    /\ UNCHANGED <<kind, msg, scan_vars, send_vars, conn_vars>>

\* RequestBuilder::header (request.rs:119), Request::header (request.rs:228)
SetHeader ==
    /\ pc = "build"
    /\ Len(log) < MaxOps
    /\ \E k \in HeaderKeys, v \in HeaderVals :
        /\ inner' = RequestBuilder_header(inner, k, v)
        /\ Called([op |-> "header", k |-> k, v |-> v])
    /\ UNCHANGED <<kind, msg, scan_vars, send_vars, conn_vars>>

\* RequestBuilder::body (request.rs:129); a Request has no body setter
SetBody ==
    /\ pc = "build"
    /\ kind = "RequestBuilder"
    /\ Len(log) < MaxOps
    /\ \E b \in Bodies :
        /\ inner' = RequestBuilder_body(inner, b)
        /\ Called([op |-> "body", b |-> b])
    /\ UNCHANGED <<kind, msg, scan_vars, send_vars, conn_vars>>

\* RequestBuilder::parse_msg (request.rs:174)
ParseMsg ==
    /\ pc = "build"
    /\ Len(log) < MaxOps
    /\ msg' = parse_msg(inner)
    /\ Called([op |-> "parse_msg"])
    /\ UNCHANGED <<kind, inner, scan_vars, send_vars, conn_vars>>

----------------------------------------------------------------------------
(* The byte source: Read::read may return fewer bytes than asked for, and  *)
(* returns 0 only at end-of-data.                                          *)
Avail == Len(stream) - pos

ReadSizes(cap) == IF Avail = 0 THEN {0} ELSE 1..Min(cap, Avail)

----------------------------------------------------------------------------
(* copy_until, request.rs:19-43 *)

\* request.rs:34  &buf[(buf.len() - val.len())..]
\* usize subtraction: overflow panics in a debug build; in a release build
\* it wraps to a start index beyond buf.len() and the slice panics.
TailPanics(b, v) == Len(b) < Len(v)

TailMatches(b, v) == SubSeq(b, Len(b) - Len(v) + 1, Len(b)) = v

\* a Vec<u8> sink (read_head's `head`) never fails; any other writer may
SinkMayFail == kind = "copy_until"

\* request.rs:26-28  first read into pre_buf, buf.extend
CuProbe ==
    /\ pc = "cu_probe"
    /\ \/ \E n \in ReadSizes(PRE_BUF_LEN) :
            /\ buf' = buf \o SubSeq(stream, pos + 1, pos + n)
            /\ read' = n
            /\ pos' = pos + n
            /\ pc' = "cu_loop"
            /\ UNCHANGED cu_res
       \/ /\ cu_res' = ErrIo
          /\ pc' = "cu_ret"
          /\ UNCHANGED <<buf, read, pos>>
    /\ UNCHANGED <<stream, val, sink, build_vars, send_vars, conn_vars>>

\* every byte is forwarded to the sink as soon as it is read
CuNext_forwarding ==
    /\ pc = "cu_loop"
    /\ \/ /\ Avail = 0
          /\ pc' = "cu_write"
          /\ UNCHANGED <<buf, read, pos, cu_res, sink>>
       \/ /\ Avail > 0
          /\ buf' = Append(buf, stream[pos + 1])
          /\ sink' = Append(sink, stream[pos + 1])
          /\ read' = read + 1
          /\ pos' = pos + 1
          /\ pc' = IF TailPanics(buf', val) THEN "panic"
                   ELSE IF TailMatches(buf', val) THEN "cu_write"
                   ELSE "cu_loop"
          /\ UNCHANGED cu_res
       \/ /\ Avail > 0
          /\ cu_res' = ErrIo
          /\ pc' = "cu_ret"
          /\ UNCHANGED <<buf, read, pos, sink>>
    /\ UNCHANGED <<stream, val, build_vars, send_vars, conn_vars>>

\* request.rs:30-37  one turn of `for byte in reader.bytes()`
CuNext ==
    /\ pc = "cu_loop"
    /\ \/ /\ Avail = 0
          /\ pc' = "cu_write"
          /\ UNCHANGED <<buf, read, pos, cu_res>>
       \/ /\ Avail > 0
          /\ buf' = Append(buf, stream[pos + 1])
          /\ read' = read + 1
          /\ pos' = pos + 1
          /\ pc' = IF TailPanics(buf', val) THEN "panic"
                   ELSE IF TailMatches(buf', val) THEN "cu_write"
                   ELSE "cu_loop"
          /\ UNCHANGED cu_res
       \/ /\ Avail > 0
          /\ cu_res' = ErrIo
          /\ pc' = "cu_ret"
          /\ UNCHANGED <<buf, read, pos>>
    /\ UNCHANGED <<stream, val, sink, build_vars, send_vars, conn_vars>>

\* request.rs:39-42  writer.write_all(&buf)?; writer.flush()?; Ok(read)
CuWrite ==
    /\ pc = "cu_write"
    /\ \/ /\ sink' = sink \o buf
          /\ cu_res' = Ok(read)
       \/ /\ SinkMayFail
          /\ \E k \in 0..Len(buf) :
                /\ sink' = sink \o Take(buf, k)
                /\ cu_res' = ErrIo
    /\ pc' = "cu_ret"
    /\ UNCHANGED <<stream, pos, val, buf, read, build_vars, send_vars, conn_vars>>

----------------------------------------------------------------------------
(* RequestBuilder::send, request.rs:138-171 *)
ErrProtocol == [tag |-> "Err", kind |-> "protocol"]

\* Response::from_head (crate::response): fails unless the block is a
\* non-empty status line followed by header lines and the blank line
WellFormedHead(head) ==
    /\ EndsWith(head, CR_LF_2)
    /\ FirstEnd(head, CR_LF) > Len(CR_LF)

from_head(head) == IF WellFormedHead(head) THEN Ok(head) ELSE ErrProtocol

ErrTls == [tag |-> "Err", kind |-> "tls"]

\* the scheme is not looked at: the send always goes over the plaintext stream
Connect_plain_only ==
    /\ pc = "connect"
    /\ \/ /\ transport' = "tcp"
          /\ pc' = "write_all"
          /\ UNCHANGED result
       \/ /\ result' = ErrIo
          /\ pc' = "done"
          /\ UNCHANGED transport
    /\ UNCHANGED <<scan_vars_but_pc, build_vars, stream_out, flushed, writer, res>>

\* request.rs:251-256  TcpStream::connect((host, corr_port))?; the branch on the scheme
Connect ==
    /\ pc = "connect"
    /\ \/ /\ transport' = "tcp"
          /\ pc' = IF inner.uri.scheme = HTTPS THEN "tls" ELSE "write_all"
          /\ UNCHANGED result
       \/ /\ result' = ErrIo
          /\ pc' = "done"
          /\ UNCHANGED transport
    /\ UNCHANGED <<scan_vars_but_pc, build_vars, stream_out, flushed, writer, res>>

\* request.rs:257-258  TlsConnector::new()?; connector.connect(host, stream)?
TlsConnect ==
    /\ pc = "tls"
    /\ \/ /\ transport' = "tls"
          /\ pc' = "write_all"
          /\ UNCHANGED result
       \/ /\ result' = ErrTls
          /\ pc' = "done"
          /\ UNCHANGED transport
    /\ UNCHANGED <<scan_vars_but_pc, build_vars, stream_out, flushed, writer, res>>

\* the message is written but the stream is not flushed before the read
WriteMsg_no_flush ==
    /\ pc = "write_all"
    /\ stream_out' = stream_out \o parse_msg(inner)
    /\ pc' = "cu_probe"
    /\ UNCHANGED <<scan_vars_but_pc, build_vars, conn_vars, flushed, writer, res, result>>

\* request.rs:143, 159  stream.write_all(msg.as_ref())?
WriteMsg ==
    /\ pc = "write_all"
    /\ LET m == parse_msg(inner) IN
        \/ /\ stream_out' = stream_out \o m
           /\ pc' = "flush"
           /\ UNCHANGED result
        \/ \E k \in 0..(Len(m) - 1) :
            /\ stream_out' = stream_out \o Take(m, k)
            /\ result' = ErrIo
            /\ pc' = "done"
    /\ UNCHANGED <<scan_vars_but_pc, build_vars, conn_vars, flushed, writer, res>>

\* a failed flush is ignored and the send goes on to read the head
FlushMsg_ignore_error ==
    /\ pc = "flush"
    /\ \/ flushed' = TRUE
       \/ UNCHANGED flushed
    /\ pc' = "cu_probe"
    /\ UNCHANGED <<scan_vars_but_pc, build_vars, conn_vars, stream_out, writer, res, result>>

\* request.rs:160-162  stream.flush()?; then read_head, request.rs:167-168
FlushMsg ==
    /\ pc = "flush"
    /\ \/ /\ flushed' = TRUE
          /\ pc' = "cu_probe"
          /\ UNCHANGED result
       \/ /\ result' = ErrIo
          /\ pc' = "done"
          /\ UNCHANGED flushed
    /\ UNCHANGED <<scan_vars_but_pc, build_vars, conn_vars, stream_out, writer, res>>

\* a head that fails to parse does not stop the send before the body copy
ReadHead_copy_anyway ==
    /\ pc = "cu_ret"
    /\ kind # "copy_until"
    /\ IF cu_res.tag = "Err"
       THEN /\ result' = cu_res
            /\ pc' = "done"
            /\ UNCHANGED res
       ELSE /\ res' = from_head(sink)
            /\ IF inner.method # "HEAD"
               THEN pc' = "copy" /\ UNCHANGED result
               ELSE result' = res' /\ pc' = "done"
    /\ UNCHANGED <<scan_vars_but_pc, build_vars, conn_vars, stream_out, flushed, writer>>

\* request.rs:168-170, 144-146  copy_until(..)?; Response::from_head(&head)?;
\* if self.method != Method::HEAD
ReadHead ==
    /\ pc = "cu_ret"
    /\ kind # "copy_until"
    /\ IF cu_res.tag = "Err"
       THEN /\ result' = cu_res
            /\ pc' = "done"
            /\ UNCHANGED res
       ELSE /\ res' = from_head(sink)
            /\ IF res'.tag = "Err"
               THEN result' = res' /\ pc' = "done"
               ELSE IF inner.method # "HEAD"
                    THEN pc' = "copy" /\ UNCHANGED result
                    ELSE result' = res' /\ pc' = "done"
    /\ UNCHANGED <<scan_vars_but_pc, build_vars, conn_vars, stream_out, flushed, writer>>

\* a failure of the copy is dropped and the parsed response returned
IoCopy_error_dropped ==
    /\ pc = "copy"
    /\ \/ /\ Avail = 0
          /\ result' = res
          /\ pc' = "done"
          /\ UNCHANGED <<pos, writer>>
       \/ \E n \in 1..Avail :
            /\ pos' = pos + n
            /\ \/ /\ writer' = writer \o SubSeq(stream, pos + 1, pos + n)
                  /\ UNCHANGED <<pc, result>>
               \/ \E k \in 0..(n - 1) :
                    /\ writer' = writer \o SubSeq(stream, pos + 1, pos + k)
                    /\ result' = res
                    /\ pc' = "done"
       \/ /\ Avail > 0
          /\ result' = res
          /\ pc' = "done"
          /\ UNCHANGED <<pos, writer>>
    /\ UNCHANGED <<stream, val, buf, read, sink, cu_res, build_vars, conn_vars,
                   stream_out, flushed, res>>

\* request.rs:147-150  io::copy(stream, writer)?; Ok(res)
IoCopy ==
    /\ pc = "copy"
    /\ \/ /\ Avail = 0
          /\ result' = res
          /\ pc' = "done"
          /\ UNCHANGED <<pos, writer>>
       \/ \E n \in 1..Avail :
            /\ pos' = pos + n
            /\ \/ /\ writer' = writer \o SubSeq(stream, pos + 1, pos + n)
                  /\ UNCHANGED <<pc, result>>
               \/ \E k \in 0..(n - 1) :
                    /\ writer' = writer \o SubSeq(stream, pos + 1, pos + k)
                    /\ result' = ErrIo
                    /\ pc' = "done"
       \/ /\ Avail > 0
          /\ result' = ErrIo
          /\ pc' = "done"
          /\ UNCHANGED <<pos, writer>>
    /\ UNCHANGED <<stream, val, buf, read, sink, cu_res, build_vars, conn_vars,
                   stream_out, flushed, res>>

----------------------------------------------------------------------------
(* Direct calls of copy_until on a byte source *)
Delims == {<<LF>>, CR_LF, CR_LF_2}

Streams == {Rep(HB, p) \o s : p \in 0..MaxPad, s \in BSeq({CR, LF}, MaxTail)}

NoBuilder == [tag |-> "None"]

ScanStart ==
    /\ pos = 0
    /\ buf = <<>>
    /\ read = 0
    /\ sink = <<>>
    /\ cu_res = None

SendIdle ==
    /\ transport = "none"
    /\ stream_out = <<>>
    /\ flushed = FALSE
    /\ writer = <<>>
    /\ res = None
    /\ result = None

InitScan ==
    /\ pc = "cu_probe"
    /\ stream \in Streams
    /\ val \in Delims
    /\ ScanStart
    /\ kind = "copy_until"
    /\ inner = NoBuilder
    /\ log = <<>>
    /\ msg = NoMsg
    /\ SendIdle

NextScan == CuProbe \/ CuNext \/ CuWrite

SpecScan == InitScan /\ [][NextScan]_vars

----------------------------------------------------------------------------
(* Properties of copy_until, checked under SpecScan *)

\* the call returned and neither the source nor the sink failed
ScanReturned == pc = "cu_ret" /\ cu_res # ErrIo

\* C1: on a stream containing exactly one occurrence of the delimiter,
\* copy_until returns with the sink holding exactly the bytes up to and
\* including that occurrence, and the count equal to that length, wherever
\* the delimiter ends (inside the first read of up to 10 bytes included).
C1_ScanStopsAtDelimiter ==
    (ScanReturned /\ Cardinality(Ends(stream, val)) = 1) =>
        /\ cu_res = Ok(FirstEnd(stream, val))
        /\ sink = Take(stream, FirstEnd(stream, val))

\* C2: when copy_until returns successfully on a stream that contains the
\* delimiter, the bytes still unread in the source are exactly the bytes
\* after the first occurrence of the delimiter.
C2_NothingReadPastDelimiter ==
    (pc = "cu_ret" /\ cu_res.tag = "Ok" /\ Ends(stream, val) # {}) =>
        Drop(stream, pos) = Drop(stream, FirstEnd(stream, val))

\* C3: on a stream that does not contain the delimiter, copy_until returns
\* an error, never a successful count.
C3_EndOfDataIsError ==
    (pc = "cu_ret" /\ Ends(stream, val) = {}) => cu_res.tag = "Err"

\* C4: no panic is reachable: when the delimiter is longer than the bytes
\* accumulated so far the tail comparison fails and scanning continues.
C4_TailSliceInBounds == pc # "panic"

\* C16: the sink is written at most once, by the step that ends the call,
\* with the entire buffer on success; a read that fails ends the call with
\* the error and an empty sink, whatever was consumed before.
C16_SinkWrittenOnceAtEnd ==
    /\ [](pc \in {"cu_probe", "cu_loop", "cu_write", "panic"} => sink = <<>>)
    /\ []((pc = "cu_ret" /\ cu_res.tag = "Ok") =>
            (sink = buf /\ cu_res.v = Len(buf) /\ buf = Take(stream, pos)))
    /\ [][/\ sink' # sink => (pc = "cu_write" /\ pc' = "cu_ret" /\ sink = <<>>)
          /\ (pc \in {"cu_probe", "cu_loop"} /\ cu_res' = ErrIo) =>
                (pc' = "cu_ret" /\ sink' = <<>>)
       ]_vars

\* a read failed after bytes were consumed: they are dropped, the sink is empty
C16_Witness ==
    /\ pc = "cu_ret"
    /\ cu_res = ErrIo
    /\ Len(buf) > PRE_BUF_LEN
    /\ Ends(buf, val) = {}
    /\ Avail > 0
    /\ sink = <<>>

----------------------------------------------------------------------------
(* Building a request: RequestBuilder::new or Request::new, then setters *)
InitBuild ==
    /\ pc = "build"
    /\ \/ kind = "RequestBuilder" /\ inner = RequestBuilder_new(URI)
       \/ kind = "Request" /\ inner = Request_new(URI)
    /\ log = <<>>
    /\ msg = NoMsg
    /\ stream = <<>>
    /\ val = CR_LF_2
    /\ ScanStart
    /\ SendIdle

NextBuild == SetMethod \/ SetHeaders \/ SetHeader \/ SetBody \/ ParseMsg

SpecBuild == InitBuild /\ [][NextBuild]_vars

----------------------------------------------------------------------------
(* Properties of the builder, checked under SpecBuild *)
LastCall == log[Len(log)]

AllKeys == {K_HOST, K_REFERER, K_CONNECTION, K_ACCEPT}

\* the calls of the log that decide the Connection header
TouchesConnection(c) ==
    \/ c.op = "headers"
    \/ c.op = "header" /\ c.k = K_CONNECTION

SetsConnection(c) ==
    \/ c.op = "headers" /\ HasKey(c.h, K_CONNECTION)
    \/ c.op = "header" /\ c.k = K_CONNECTION

CarriesClose == V_CLOSE \in Values(inner.headers, K_CONNECTION)

\* C6 as stated: after Request::new and any sequence of headers, header and
\* set_method calls none of which sets the key Connection, the header set
\* still contains Connection: Close.
C6_CloseSurvivesAllCalls ==
    (kind = "Request" /\ \A i \in DOMAIN log : ~SetsConnection(log[i])) => CarriesClose

\* C6 as amended: after Request::new, the Connection header is what the last
\* call deciding it left: Close when no headers (replace-all) call and no
\* header call on the key Connection was made, the supplied set's entry (or
\* none) after a headers call, the given value after a header call.
C6_CloseUntilReplaced ==
    kind = "Request" =>
        LET T == {i \in DOMAIN log : TouchesConnection(log[i])} IN
        IF T = {} THEN Values(inner.headers, K_CONNECTION) = {V_CLOSE}
        ELSE LET c == log[CHOOSE i \in T : \A j \in T : j <= i] IN
             Values(inner.headers, K_CONNECTION) =
                IF c.op = "headers" THEN Values(c.h, K_CONNECTION) ELSE {c.v}

\* a Request whose other headers and method were changed still carries Close
C6_Witness ==
    /\ kind = "Request"
    /\ \E i \in DOMAIN log : log[i].op = "header" /\ log[i].k = K_ACCEPT
    /\ \E i \in DOMAIN log : log[i].op = "method"
    /\ \A i \in DOMAIN log : ~TouchesConnection(log[i])
    /\ CarriesClose

RECURSIVE DecodeLines(_)
\* reads CRLF-terminated lines up to the first empty one
DecodeLines(s) ==
    LET e == FirstEnd(s, CR_LF) IN
    IF e = 0 THEN [ok |-> FALSE, lines |-> <<>>, rest |-> s]
    ELSE IF e = Len(CR_LF) THEN [ok |-> TRUE, lines |-> <<>>, rest |-> Drop(s, e)]
    ELSE LET d == DecodeLines(Drop(s, e)) IN
         [ok |-> d.ok, lines |-> <<Take(s, e - Len(CR_LF))>> \o d.lines, rest |-> d.rest]

\* C7: the bytes parse_msg returns read back as: the request line
\* "<METHOD> <resource> HTTP/1.1", one "<key>: <value>" line per header in
\* iteration order, a blank line, then the body verbatim (nothing without one).
C7_WireMessage ==
    (Len(log) > 0 /\ LastCall.op = "parse_msg") =>
        LET d == DecodeLines(msg) IN
        /\ d.ok
        /\ Len(d.lines) = 1 + Len(inner.headers)
        /\ d.lines[1] = MethodDisplay(inner.method) \o <<SP>> \o inner.uri.resource
                            \o <<SP>> \o HTTP_V
        /\ \A i \in DOMAIN inner.headers :
                d.lines[i + 1] = inner.headers[i][1] \o <<COLON, SP>> \o inner.headers[i][2]
        /\ d.rest = IF inner.body.tag = "Some" THEN inner.body.v ELSE <<>>

\* a message of a non-GET request with headers and a body holding a CRLF
C7_Witness ==
    /\ Len(log) > 0
    /\ LastCall.op = "parse_msg"
    /\ inner.method # "GET"
    /\ Len(inner.headers) >= 2
    /\ inner.body.tag = "Some"
    /\ Ends(inner.body.v, CR_LF) # {}
    /\ msg = parse_msg(inner)

\* C8: headers makes the header set exactly the supplied one; header leaves
\* the entries of every other key as they were and leaves exactly one entry
\* for the given key, holding the given value.
C8_HeaderFrame ==
    [][Len(log') > Len(log) =>
        LET c == log'[Len(log')] IN
        /\ c.op = "headers" => inner'.headers = c.h
        /\ c.op = "header" =>
            /\ \A k \in AllKeys \ {c.k} :
                    Values(inner'.headers, k) = Values(inner.headers, k)
            /\ Values(inner'.headers, c.k) = {c.v}
            /\ Cardinality({i \in DOMAIN inner'.headers : inner'.headers[i][1] = c.k}) = 1
            /\ Len(inner'.headers) = Len(inner.headers) + (IF HasKey(inner.headers, c.k) THEN 0 ELSE 1)
    ]_vars

\* headers replaced the defaults, then header overwrote one supplied entry
C8_Witness ==
    /\ Len(log) = 2
    /\ log[1].op = "headers"
    /\ Len(log[1].h) = 2
    /\ log[2].op = "header"
    /\ HasKey(log[1].h, log[2].k)
    /\ log[2].v \notin Values(log[1].h, log[2].k)
    /\ Len(inner.headers) = 2
    /\ ~HasKey(inner.headers, K_REFERER)

\* the last call of the log with the given name, 0 when there is none
LastOf(op) ==
    LET T == {i \in DOMAIN log : log[i].op = op} IN
    IF T = {} THEN 0 ELSE CHOOSE i \in T : \A j \in T : j <= i

\* C14: setting the method changes the method only, setting the body changes
\* the body only (to exactly the given bytes); after any sequence of setters
\* method and body hold the last value given (GET and no body when none was).
C14_SetterFrame ==
    /\ [][Len(log') > Len(log) =>
            LET c == log'[Len(log')] IN
            /\ c.op = "method" =>
                /\ inner'.method = c.m
                /\ inner'.headers = inner.headers
                /\ inner'.body = inner.body
                /\ inner'.uri = inner.uri
            /\ c.op = "body" =>
                /\ inner'.body = Some(c.b)
                /\ inner'.method = inner.method
                /\ inner'.headers = inner.headers
                /\ inner'.uri = inner.uri
       ]_vars
    /\ [](inner.method = IF LastOf("method") = 0 THEN "GET" ELSE log[LastOf("method")].m)
    /\ [](inner.body = IF LastOf("body") = 0 THEN NoBody ELSE Some(log[LastOf("body")].b))

\* the method was set after a body and after another method
C14_Witness ==
    /\ Len(log) = 3
    /\ log[1].op = "method"
    /\ log[2].op = "body"
    /\ log[3].op = "method"
    /\ log[3].m # log[1].m
    /\ inner.method = log[3].m
    /\ inner.body = Some(log[2].b)

\* the names of the variants of Method, request.rs:48-54, spelled in bytes
VariantName ==
    [m \in Methods |->
        CASE m = "GET" -> <<71, 69, 84>>
          [] m = "HEAD" -> <<72, 69, 65, 68>>
          [] m = "POST" -> <<80, 79, 83, 84>>
          [] m = "PUT" -> <<80, 85, 84>>
          [] m = "DELETE" -> <<68, 69, 76, 69, 84, 69>>
          [] m = "OPTIONS" -> <<79, 80, 84, 73, 79, 78, 83>>
          [] m = "PATCH" -> <<80, 65, 84, 67, 72>>]

\* C15: the token that starts a serialized message is the name of the
\* request's method in uppercase letters, and no other method renders to it.
C15_MethodToken ==
    (Len(log) > 0 /\ LastCall.op = "parse_msg") =>
        LET tok == Take(msg, FirstEnd(msg, <<SP>>) - 1) IN
        /\ tok = VariantName[inner.method]
        /\ \A i \in DOMAIN tok : tok[i] \in 65..90
        /\ \A m \in Methods : MethodDisplay(m) = tok => m = inner.method

\* a message of a PUT request: the token shares its first byte with POST and PATCH
C15_Witness ==
    /\ Len(log) > 0
    /\ LastCall.op = "parse_msg"
    /\ inner.method = "PUT"
    /\ Take(msg, 3) = VariantName["PUT"]

----------------------------------------------------------------------------
(* Sending over an open stream: RequestBuilder::send *)
MaxBody == 2
MaxBlank == 3

RECURSIVE Blank(_)
Blank(j) == IF j = 0 THEN <<>> ELSE CR_LF \o Blank(j - 1)

\* what the peer delivers before it closes: a line, blank lines, more bytes
Responses ==
    {Rep(HB, p) \o Blank(j) \o Rep(HB, q) \o Blank(j2) :
        p \in 0..MaxPad, j \in 0..MaxBlank, q \in 0..MaxBody, j2 \in {0, 2}}

\* a stream the caller opened, handed to RequestBuilder::send
SendOpen ==
    /\ stream_out = <<>>
    /\ flushed = FALSE
    /\ writer = <<>>
    /\ res = None
    /\ result = None
    /\ transport = "caller"

Init ==
    /\ \/ /\ pc = "write_all"
          /\ kind = "RequestBuilder"
          /\ \E m \in Methods, b \in {NoBody, Some(<<HB>>)} :
                inner = [RequestBuilder_method(RequestBuilder_new(URI), m) EXCEPT !.body = b]
          /\ SendOpen
       \/ /\ pc = "connect"
          /\ kind = "Request"
          /\ \E m \in Methods, u \in {URI, URI_S} :
                inner = RequestBuilder_method(Request_new(u), m)
          /\ SendIdle
    /\ log = <<>>
    /\ msg = NoMsg
    /\ stream \in Responses
    /\ val = CR_LF_2
    /\ ScanStart

Next ==
    \/ Connect \/ TlsConnect
    \/ WriteMsg \/ FlushMsg \/ CuProbe \/ CuNext \/ CuWrite \/ ReadHead \/ IoCopy

Spec == Init /\ [][Next]_vars

----------------------------------------------------------------------------
(* Properties of the send pipeline, checked under Spec *)
HeadEnd == FirstEnd(stream, CR_LF_2)

\* C5: a send with method HEAD leaves the caller's writer unchanged and
\* does not read the stream past the header block.
C5_HeadStopsAfterHeaderBlock ==
    (pc = "done" /\ inner.method = "HEAD") =>
        /\ writer = <<>>
        /\ HeadEnd > 0 => pos <= HeadEnd

\* C9: a send with a method other than HEAD over a stream holding a response
\* head and then end-of-data, with no I/O failure, hands the parser exactly
\* the bytes up to and including the first two-CRLF terminator and gives the
\* caller's writer exactly the bytes after it.
C9_HeadAndBodySplit ==
    (/\ pc \in {"done", "panic"}
     /\ inner.method # "HEAD"
     /\ WellFormedHead(Take(stream, HeadEnd))
     /\ result # ErrIo) =>
        /\ pc = "done"
        /\ result = Ok(Take(stream, HeadEnd))
        /\ sink = Take(stream, HeadEnd)
        /\ writer = Drop(stream, HeadEnd)

\* C10: no byte of the response is read before the whole message is written
\* and the stream flushed; no byte reaches the caller's writer before the
\* header block is scanned and parsed; a response is returned only as parsed
\* and, unless the method is HEAD, after the copy reached end-of-data.
C10_PipelineOrder ==
    /\ (pos > 0 \/ pc \in {"cu_probe", "cu_loop", "cu_write", "cu_ret", "copy", "panic"}) =>
            (flushed /\ stream_out = parse_msg(inner))
    /\ (writer # <<>> \/ pc = "copy") =>
            (cu_res.tag = "Ok" /\ res = Ok(sink))
    /\ result.tag = "Ok" =>
            /\ pc = "done"
            /\ result = res
            /\ inner.method # "HEAD" => Avail = 0

\* a non-HEAD send that returned a response after copying a body
C10_Witness ==
    /\ pc = "done"
    /\ result.tag = "Ok"
    /\ inner.method # "HEAD"
    /\ writer # <<>>
    /\ flushed

\* the positions of a send, in program order
Rank(p) ==
    CASE p = "connect" -> 0
      [] p = "tls" -> 1
      [] p = "write_all" -> 2
      [] p = "flush" -> 3
      [] p = "cu_probe" -> 4
      [] p = "cu_loop" -> 5
      [] p = "cu_write" -> 6
      [] p = "cu_ret" -> 7
      [] p = "copy" -> 8
      [] p = "done" -> 9
      [] p = "panic" -> 9

IsPrefix(a, b) == Len(a) <= Len(b) /\ a = Take(b, Len(a))

\* C11: the parser is only ever given a buffer that ends with the two-CRLF
\* terminator, and a stream without the terminator ends the send with an
\* I/O failure.
C11_ParserGetsWholeHead ==
    /\ res # None => EndsWith(sink, CR_LF_2)
    /\ (pc = "done" /\ flushed /\ HeadEnd = 0) => result = ErrIo

\* C12: a failed write or flush ends the send with an error and nothing
\* read; a failed head scan or parse ends it with an error and nothing
\* copied; a failure is what the send returns; the message is written at
\* most once and no position of the send is entered again.
C12_FailureAborts ==
    /\ []((pc = "done" /\ ~flushed) =>
            (result.tag = "Err" /\ pos = 0 /\ res = None /\ writer = <<>>))
    /\ []((pc = "done" /\ res.tag # "Ok") =>
            (result.tag = "Err" /\ writer = <<>> /\ pos = read))
    /\ []((pc = "done" /\ cu_res = ErrIo) => result = ErrIo)
    /\ [](IsPrefix(stream_out, parse_msg(inner)))
    /\ [][/\ pc' # pc => Rank(pc') > Rank(pc)
          /\ flushed => (flushed' /\ stream_out' = stream_out)
          /\ result' # result => (result = None /\ pc' = "done")
       ]_vars

\* the head scan failed on a read after the request was flushed
C12_Witness ==
    /\ pc = "done"
    /\ flushed
    /\ cu_res = ErrIo
    /\ result = ErrIo
    /\ pos > 0
    /\ Avail > 0
    /\ writer = <<>>

IsHttps == inner.uri.scheme = HTTPS

\* C13: Request::send connects in plaintext first, performs the TLS
\* handshake exactly when the scheme is "https" and only on the connected
\* stream, then runs the builder's send once, over TLS for https and over the
\* plaintext stream otherwise; a failed connect or handshake returns an
\* error with nothing written.
C13_TransportSelection ==
    /\ [](kind = "Request" =>
            /\ pc = "connect" => transport = "none"
            /\ pc = "tls" => (transport = "tcp" /\ IsHttps)
            /\ transport = "tls" => IsHttps
            /\ (Rank(pc) \in 2..8 \/ pc = "panic" \/ stream_out # <<>> \/ result.tag = "Ok") =>
                    transport = (IF IsHttps THEN "tls" ELSE "tcp")
            /\ (pc = "done" /\ transport = "none") =>
                    (result = ErrIo /\ stream_out = <<>> /\ pos = 0)
            /\ (pc = "done" /\ IsHttps /\ transport = "tcp") =>
                    (result = ErrTls /\ stream_out = <<>> /\ pos = 0))
    /\ [][/\ pc' # pc => Rank(pc') > Rank(pc)
          /\ transport' # transport =>
                \/ pc = "connect" /\ transport = "none" /\ transport' = "tcp"
                \/ pc = "tls" /\ transport = "tcp" /\ transport' = "tls"
       ]_vars

\* a Request to an https uri got its response over the TLS stream
C13_Witness ==
    /\ kind = "Request"
    /\ IsHttps
    /\ transport = "tls"
    /\ pc = "done"
    /\ result.tag = "Ok"
    /\ stream_out = parse_msg(inner)

\* C17: when the captured head fails to parse, the send ends at once with
\* the protocol error: the caller's writer is untouched and nothing is read
\* beyond the bytes the head scan consumed.
C17_ParseFailureStops ==
    res = ErrProtocol =>
        /\ pc = "done"
        /\ result = ErrProtocol
        /\ writer = <<>>
        /\ pos = read

\* a non-HEAD send whose head failed to parse, with bytes left on the stream
C17_Witness ==
    /\ pc = "done"
    /\ res = ErrProtocol
    /\ inner.method # "HEAD"
    /\ EndsWith(sink, CR_LF_2)
    /\ Avail > 0

\* C18: after a parsed head, a non-HEAD send ends either with the response,
\* the copy having reached end-of-data and the writer holding every byte
\* after the head scan, or with the I/O error of the copy, the writer
\* holding a prefix of those bytes and the response not returned.
C18_CopyFailureHidesResponse ==
    (pc = "done" /\ res.tag = "Ok" /\ inner.method # "HEAD") =>
        \/ /\ result = res
           /\ Avail = 0
           /\ writer = Drop(stream, read)
        \/ /\ result = ErrIo
           /\ IsPrefix(writer, Drop(stream, read))

\* the copy failed after part of the body reached the writer
C18_Witness ==
    /\ pc = "done"
    /\ res.tag = "Ok"
    /\ inner.method # "HEAD"
    /\ result = ErrIo
    /\ writer # <<>>
    /\ Len(writer) < Len(stream) - read

====
